---------------------------- MODULE Spec2Model ----------------------------
(***************************************************************************)
(* Model of the CarGurus price-history scraper (src/cargurus_scraper):     *)
(* the date chunker, the price extractor, the point normalizer, the gap    *)
(* filler, the CSV serializer, the date-range validator and the scrape     *)
(* orchestration driven by the command line entry point.                   *)
(*                                                                         *)
(* Representation.                                                         *)
(*   - A calendar day is its proleptic Gregorian ordinal (0001-01-01 = 1), *)
(*     as datetime.date.toordinal() numbers it.                            *)
(*   - A datetime is a number of ticks, TicksPerDay ticks to a day; tick 0 *)
(*     of a day is midnight (datetime.min.time()).                         *)
(*   - A "YYYY-MM-DD" string is the triple <<year, month, day>>; the       *)
(*     lexicographic order of the strings is the lexicographic order of    *)
(*     the triples.                                                        *)
(*   - A price is a number of thousandths; round(x, 2) yields a multiple   *)
(*     of ten thousandths.                                                 *)
(***************************************************************************)
EXTENDS Integers, Sequences, FiniteSets, TLC

VARIABLES
    call,        \* the arguments of the function or of the run under study (a record)
    ret,         \* its outcome: NotCalled, [ok |-> value] or [err |-> exception]
    pc,          \* where a run of main() stands
    scrape,      \* the local variables of CarGurusScraper.scrape
    log,         \* what the run did to the outside: sleeps and fetches, in order
    fs,          \* the files under output/, path |-> rows
    stderr,      \* the messages printed to sys.stderr
    exit_status, \* "none" while running, then "0" or "1"
    loop         \* the frame of a running generate_monthly_chunks: current, chunks

vars == <<call, ret, pc, scrape, log, fs, stderr, exit_status, loop>>

NotCalled == [state |-> "not_called"]

(***************************************************************************)
(* Calendar arithmetic of datetime (date.toordinal, date.fromordinal,      *)
(* datetime.replace, timedelta).                                           *)
(***************************************************************************)
TicksPerDay == 2

IsLeap(y) == (y % 4 = 0) /\ ((y % 100 # 0) \/ (y % 400 = 0))

DaysInMonth(y, m) ==
    IF m = 2 THEN (IF IsLeap(y) THEN 29 ELSE 28)
    ELSE IF m \in {4, 6, 9, 11} THEN 30 ELSE 31

\* the days of the year before the first of month m
DaysBeforeMonth(y, m) ==
    <<0, 31, 59, 90, 120, 151, 181, 212, 243, 273, 304, 334>>[m]
    + (IF m > 2 /\ IsLeap(y) THEN 1 ELSE 0)

DaysBeforeYear(y) ==
    LET p == y - 1 IN p * 365 + (p \div 4) - (p \div 100) + (p \div 400)

\* datetime(y, m, d).toordinal()
Ordinal(y, m, d) == DaysBeforeYear(y) + DaysBeforeMonth(y, m) + d

\* date.fromordinal(n), as <<year, month, day>>
FromOrdinal(n) ==
    LET e == (n * 400) \div 146097
        y == CHOOSE x \in e..(e + 2) : DaysBeforeYear(x) < n /\ n <= DaysBeforeYear(x + 1)
        doy == n - DaysBeforeYear(y)
        m == CHOOSE x \in 1..12 :
                 DaysBeforeMonth(y, x) < doy /\ doy <= DaysBeforeMonth(y, x) + DaysInMonth(y, x)
    IN  <<y, m, doy - DaysBeforeMonth(y, m)>>

YearOf(n) == FromOrdinal(n)[1]

MonthOf(n) == FromOrdinal(n)[2]

DayOf(n) == FromOrdinal(n)[3]

\* datetime.combine(date, datetime.min.time())
Midnight(day) == day * TicksPerDay

\* datetime.date(), as an ordinal
DateOf(dt) == dt \div TicksPerDay

\* the time of day of a datetime, in ticks
TimeOf(dt) == dt % TicksPerDay

\* timedelta(days=n)
Days(n) == n * TicksPerDay


\* datetime.replace(year=y, month=m, day=d): the time of day is kept
Replace(dt, y, m, d) == Midnight(Ordinal(y, m, d)) + TimeOf(dt)

\* strftime("%Y-%m-%d")
Strftime(dt) == FromOrdinal(DateOf(dt))

\* the order of str on "YYYY-MM-DD" strings
StrLess(a, b) ==
    \/ a[1] < b[1]
    \/ a[1] = b[1] /\ a[2] < b[2]
    \/ a[1] = b[1] /\ a[2] = b[2] /\ a[3] < b[3]

Min(a, b) == IF a <= b THEN a ELSE b

(***************************************************************************)
(* Outcomes: a returned value or a raised exception.                       *)
(***************************************************************************)
Ok(v) == [ok |-> v]
Raise(type, msg) == [err |-> [type |-> type, msg |-> msg]]
IsOk(r) == "ok" \in DOMAIN r
IsErr(r) == "err" \in DOMAIN r

\* The messages, as sequences of phrases; `"..." in str(e)` looks for a phrase.
MsgNoData == <<"Error:", "No price data available", "for the specified vehicle and date range">>
MsgUnexpected == <<"Error:", "Unexpected response format", "from CarGurus API">>
Contains(msg, phrase) == \E k \in 1..Len(msg) : msg[k] = phrase

(***************************************************************************)
(* DateProcessor.generate_monthly_chunks                                   *)
(***************************************************************************)
\* the loop condition `current < end_date`, with <= in its place
ChunkLoopCond_Inclusive(current, end_date) == current <= end_date

ChunkLoopCond(current, end_date) == current < end_date

\* a next_month that forgets the December roll-over
NextMonth_NoRollover(current) ==
    LET y == YearOf(DateOf(current))
        m == MonthOf(DateOf(current))
    IN  IF m = 12 THEN Replace(current, y, 1, 1) ELSE Replace(current, y, m + 1, 1)

NextMonth(current) ==
    LET y == YearOf(DateOf(current))
        m == MonthOf(DateOf(current))
    IN  IF m = 12 THEN Replace(current, y + 1, 1, 1) ELSE Replace(current, y, m + 1, 1)

\* a chunk end that is not held back by end_date
ChunkEnd_Unclamped(next_month, end_date) == next_month - Days(1)

ChunkEnd(next_month, end_date) == Min(next_month - Days(1), end_date)

RECURSIVE ChunkLoop(_, _, _)
ChunkLoop(current, end_date, chunks) ==
    IF ~ChunkLoopCond(current, end_date) THEN chunks
    ELSE LET next_month == NextMonth(current)
             chunk_end == ChunkEnd(next_month, end_date)
         IN  ChunkLoop(next_month, end_date, Append(chunks, <<current, chunk_end>>))

generate_monthly_chunks(start_date, end_date) == ChunkLoop(start_date, end_date, <<>>)

(***************************************************************************)
(* DataProcessor.fill_date_gaps                                            *)
(***************************************************************************)
\* dict(price_data): the keys, and for each key the value of its last entry
DictKeys(price_data) == {price_data[k][1] : k \in 1..Len(price_data)}

\* a dict that keeps the first entry of a key
DictOf_FirstWins(price_data) ==
    [d \in DictKeys(price_data) |->
        LET first == CHOOSE k \in 1..Len(price_data) :
                         /\ price_data[k][1] = d
                         /\ \A j \in 1..(k - 1) : price_data[j][1] # d
        IN  price_data[first][2]]

DictOf(price_data) ==
    [d \in DictKeys(price_data) |->
        LET last == CHOOSE k \in 1..Len(price_data) :
                        /\ price_data[k][1] = d
                        /\ \A j \in (k + 1)..Len(price_data) : price_data[j][1] # d
        IN  price_data[last][2]]

NoPrice == -1   \* last_price = None

\* a step that drops the carried price on a day without an entry
FillEmit_NoCarry(date_str, price_dict, last_price, filled_data) ==
    IF date_str \in DOMAIN price_dict
    THEN Append(filled_data, <<date_str, price_dict[date_str]>>)
    ELSE filled_data

\* a step that prefers the carried price to the entry of the day
FillEmit_Stale(date_str, price_dict, last_price, filled_data) ==
    IF last_price # NoPrice
    THEN Append(filled_data, <<date_str, last_price>>)
    ELSE IF date_str \in DOMAIN price_dict
         THEN Append(filled_data, <<date_str, price_dict[date_str]>>)
         ELSE filled_data

\* one day of the walk: the rows after it
FillEmit(date_str, price_dict, last_price, filled_data) ==
    IF date_str \in DOMAIN price_dict
    THEN Append(filled_data, <<date_str, price_dict[date_str]>>)
    ELSE IF last_price # NoPrice
         THEN Append(filled_data, <<date_str, last_price>>)
         ELSE filled_data

RECURSIVE FillLoop(_, _, _, _, _)
FillLoop(current_date, end_date, price_dict, last_price, filled_data) ==
    IF ~(current_date <= end_date) THEN filled_data
    ELSE LET date_str == Strftime(current_date)
             new_last == IF date_str \in DOMAIN price_dict
                         THEN price_dict[date_str] ELSE last_price
         IN  FillLoop(current_date + Days(1), end_date, price_dict, new_last,
                      FillEmit(date_str, price_dict, last_price, filled_data))

\* a gap filler without the check for an empty series
fill_date_gaps_Unchecked(price_data, start_date, end_date) ==
    Ok(FillLoop(start_date, end_date, DictOf(price_data), NoPrice, <<>>))

fill_date_gaps(price_data, start_date, end_date) ==
    IF price_data = <<>> THEN Raise("ValueError", MsgNoData)
    ELSE Ok(FillLoop(start_date, end_date, DictOf(price_data), NoPrice, <<>>))

(***************************************************************************)
(* JSON values as Python holds them: a record of the kind t and one        *)
(* payload field per kind (the others at their default).                   *)
(*   null; bool and num (n: the number, in the unit of the field it is     *)
(*   read as); huge (a number beyond the range of a float and of the       *)
(*   platform's time_t, such as 10**400); str (s); list (l: a sequence);   *)
(*   dict (d: a function of its keys).                                     *)
(***************************************************************************)
NoKeys == [k \in {} |-> 0]
JMk(t, n, s, l, d) == [t |-> t, n |-> n, s |-> s, l |-> l, d |-> d]
JNull == JMk("null", 0, "", <<>>, NoKeys)
JBool(b) == JMk("bool", IF b THEN 1 ELSE 0, "", <<>>, NoKeys)
JNum(n) == JMk("num", n, "", <<>>, NoKeys)
JHuge == JMk("huge", 0, "", <<>>, NoKeys)
JStr(x) == JMk("str", 0, x, <<>>, NoKeys)
JList(x) == JMk("list", 0, "", x, NoKeys)
JDict(f) == JMk("dict", 0, "", <<>>, f)
JEmptyDict == JDict(NoKeys)

\* bool(x)
Truthy(j) ==
    CASE j.t = "null" -> FALSE
      [] j.t = "bool" -> j.n # 0
      [] j.t = "num" -> j.n # 0
      [] j.t = "huge" -> TRUE
      [] j.t = "str" -> j.s # ""
      [] j.t = "list" -> j.l # <<>>
      [] j.t = "dict" -> DOMAIN j.d # {}

\* x.get(key, default): only a dict has the method
JGet(j, key, default) ==
    IF j.t = "dict"
    THEN Ok(IF key \in DOMAIN j.d THEN j.d[key] ELSE default)
    ELSE Raise("AttributeError", <<"object has no attribute 'get'">>)

\* an index that takes the last item of a list
JIndex0_Last(j) ==
    CASE j.t = "list" -> IF j.l # <<>> THEN Ok(j.l[Len(j.l)])
                         ELSE Raise("IndexError", <<"list index out of range">>)
      [] j.t = "dict" -> Raise("KeyError", <<"0">>)
      [] j.t = "str" -> IF j.s # "" THEN Ok(JStr("c"))
                        ELSE Raise("IndexError", <<"string index out of range">>)
      [] OTHER -> Raise("TypeError", <<"object is not subscriptable">>)

\* x[0]; a non-empty str yields its first character, itself a str
JIndex0(j) ==
    CASE j.t = "list" -> IF j.l # <<>> THEN Ok(j.l[1])
                         ELSE Raise("IndexError", <<"list index out of range">>)
      [] j.t = "dict" -> Raise("KeyError", <<"0">>)
      [] j.t = "str" -> IF j.s # "" THEN Ok(JStr("c"))
                        ELSE Raise("IndexError", <<"string index out of range">>)
      [] OTHER -> Raise("TypeError", <<"object is not subscriptable">>)

\* x[key] with a str key
JItem(j, key) ==
    CASE j.t = "dict" -> IF key \in DOMAIN j.d THEN Ok(j.d[key])
                         ELSE Raise("KeyError", <<key>>)
      [] j.t \in {"list", "str"} -> Raise("TypeError", <<"indices must be integers">>)
      [] OTHER -> Raise("TypeError", <<"object is not subscriptable">>)

(***************************************************************************)
(* DataProcessor.extract_price_points                                      *)
(***************************************************************************)
\* an except clause that also takes AttributeError and TypeError
ExtractExcept_Wide(r) ==
    IF IsErr(r) /\ r.err.type \in {"KeyError", "IndexError", "AttributeError", "TypeError"}
    THEN Raise("ValueError", MsgUnexpected)
    ELSE r

\* except (KeyError, IndexError): raise ValueError("... Unexpected response format ...")
ExtractExcept(r) ==
    IF IsErr(r) /\ r.err.type \in {"KeyError", "IndexError"}
    THEN Raise("ValueError", MsgUnexpected)
    ELSE r

\* an emptiness test that lets an empty collection through
IsEmptyCollection_Never(j) == FALSE

\* `if not x`
IsEmptyCollection(j) == ~Truthy(j)

\* the body of the try block
ExtractBody(api_response) ==
    LET entities == JGet(api_response, "pricePointsEntities", JList(<<>>))
    IN  IF IsErr(entities) THEN entities
        ELSE IF IsEmptyCollection(entities.ok) THEN Raise("ValueError", MsgNoData)
        ELSE LET first == JIndex0(entities.ok)
             IN  IF IsErr(first) THEN first
                 ELSE LET price_points == JGet(first.ok, "pricePoints", JList(<<>>))
                      IN  IF IsErr(price_points) THEN price_points
                          ELSE IF IsEmptyCollection(price_points.ok)
                               THEN Raise("ValueError", MsgNoData)
                               ELSE Ok(price_points.ok)

extract_price_points(api_response) == ExtractExcept(ExtractBody(api_response))

(***************************************************************************)
(* DateProcessor.to_unix_milliseconds / from_unix_milliseconds.  A         *)
(* timestamp counts ticks since 1970-01-01 00:00 local time (the model's   *)
(* unit in place of the millisecond); both directions use the local zone.  *)
(***************************************************************************)
EpochTick == Midnight(Ordinal(1970, 1, 1))

to_unix_milliseconds(dt) == dt - EpochTick

\* timestamp / 1000, then datetime.fromtimestamp
from_unix_milliseconds(timestamp) ==
    CASE timestamp.t = "num" -> Ok(EpochTick + timestamp.n)
      [] timestamp.t = "bool" -> Ok(EpochTick)
      [] timestamp.t = "huge" -> Raise("OverflowError", <<"timestamp out of range for platform time_t">>)
      [] OTHER -> Raise("TypeError", <<"unsupported operand type(s) for /">>)

(***************************************************************************)
(* DataProcessor.process_price_points                                      *)
(***************************************************************************)
\* the strings float() reads as a number, with their value in thousandths
NumericStrings == [x \in {"12.5"} |-> 12500]

\* float(x)
PyFloat(j) ==
    CASE j.t = "num" -> Ok(j.n)
      [] j.t = "bool" -> Ok(j.n * 1000)
      [] j.t = "huge" -> Raise("OverflowError", <<"int too large to convert to float">>)
      [] j.t = "str" -> IF j.s \in DOMAIN NumericStrings THEN Ok(NumericStrings[j.s])
                        ELSE Raise("ValueError", <<"could not convert string to float">>)
      [] OTHER -> Raise("TypeError", <<"float() argument must be a string or a real number">>)

\* round(x, 2) and the rounding of "{:.2f}": thousandths to the nearest
\* hundredth, an exact tie to the even hundredth; the result in hundredths
RoundToCents(x) ==
    LET q == x \div 10
        r == x % 10
    IN  IF r < 5 THEN q
        ELSE IF r > 5 THEN q + 1
        ELSE IF q % 2 = 0 THEN q ELSE q + 1

\* round(x, 2), in thousandths
Round2(x) == RoundToCents(x) * 10

\* the body of the try block for one point: the (date, price) pair or the error
ProcessPoint(point) ==
    LET timestamp == JItem(point, "date")
    IN  IF IsErr(timestamp) THEN timestamp
        ELSE LET raw == JItem(point, "price")
             IN  IF IsErr(raw) THEN raw
                 ELSE LET f == PyFloat(raw.ok)
                      IN  IF IsErr(f) THEN f
                          ELSE LET dt == from_unix_milliseconds(timestamp.ok)
                               IN  IF IsErr(dt) THEN dt
                                   ELSE Ok(<<Strftime(dt.ok), Round2(f.ok)>>)

\* an except clause that takes every exception
ProcessCaught_All == {"KeyError", "ValueError", "TypeError", "OverflowError"}

\* except (KeyError, ValueError, TypeError): continue
ProcessCaught == {"KeyError", "ValueError", "TypeError"}

RECURSIVE ProcessLoop(_, _)
ProcessLoop(price_points, processed) ==
    IF price_points = <<>> THEN Ok(processed)
    ELSE LET r == ProcessPoint(Head(price_points))
         IN  IF IsOk(r) THEN ProcessLoop(Tail(price_points), Append(processed, r.ok))
             ELSE IF r.err.type \in ProcessCaught THEN ProcessLoop(Tail(price_points), processed)
             ELSE r

\* sorted(processed, key=lambda x: x[0]): stable, ascending by date string
\* an insertion that puts a pair before the pairs of its own date
RECURSIVE InsertByDate_BeforeEqual(_, _)
InsertByDate_BeforeEqual(sorted, x) ==
    IF sorted = <<>> THEN <<x>>
    ELSE IF ~StrLess(Head(sorted)[1], x[1]) THEN <<x>> \o sorted
    ELSE <<Head(sorted)>> \o InsertByDate_BeforeEqual(Tail(sorted), x)

RECURSIVE InsertByDate(_, _)
InsertByDate(sorted, x) ==
    IF sorted = <<>> THEN <<x>>
    ELSE IF StrLess(x[1], Head(sorted)[1]) THEN <<x>> \o sorted
    ELSE <<Head(sorted)>> \o InsertByDate(Tail(sorted), x)

RECURSIVE SortByDate(_)
SortByDate(processed) ==
    IF processed = <<>> THEN <<>>
    ELSE InsertByDate(SortByDate(SubSeq(processed, 1, Len(processed) - 1)),
                      processed[Len(processed)])

process_price_points(price_points) ==
    LET r == ProcessLoop(price_points, <<>>)
    IN  IF IsOk(r) THEN Ok(SortByDate(r.ok)) ELSE r

(***************************************************************************)
(* InputValidator.validate_date_range.  `today` is datetime.now().date();  *)
(* answer1 and answer2 are what input() returns at the two prompts.        *)
(***************************************************************************)
RetentionDays == 365

\* response.lower().strip() on the answers the model types
LowerStrip(answer) ==
    CASE answer \in {"y", "Y", " y "} -> "y"
      [] answer \in {"yes", "YES", "Yes "} -> "yes"
      [] answer \in {"n", "N"} -> "n"
      [] answer \in {"no", "NO"} -> "no"
      [] OTHER -> answer

\* a prompt that takes every answer for a yes
Accepts_Always(answer) == TRUE

Accepts(answer) == LowerStrip(answer) \in {"y", "yes"}

MsgStartTooOld == <<"Error:", "Start date cannot be more than 1 year ago">>
MsgStartNotBefore == <<"Error:", "Start date must be before end date">>
MsgEndFuture == <<"Error:", "End date cannot be in the future">>

\* the start date after the first check, or the error
ValidateStart(start_date, today, answer1) ==
    LET earliest_allowed_date == today - RetentionDays
    IN  IF DateOf(start_date) < earliest_allowed_date
        THEN IF Accepts(answer1) THEN Ok(Midnight(earliest_allowed_date))
             ELSE Raise("ValueError", MsgStartTooOld)
        ELSE Ok(start_date)

\* the end date after the last check, or the error
ValidateEnd(end_date, today, answer2) ==
    LET yesterday == today - 1
    IN  IF DateOf(end_date) > yesterday
        THEN IF Accepts(answer2) THEN Ok(Midnight(yesterday))
             ELSE Raise("ValueError", MsgEndFuture)
        ELSE Ok(end_date)

\* an order check that lets start = end through
OrderRejected_Strict(start_date, end_date) == start_date > end_date

\* `if start_date >= end_date: raise`
OrderRejected(start_date, end_date) == start_date >= end_date

validate_date_range(start_date, end_date, today, answer1, answer2) ==
    LET s == ValidateStart(start_date, today, answer1)
    IN  IF IsErr(s) THEN s
        ELSE IF OrderRejected(s.ok, end_date) THEN Raise("ValueError", MsgStartNotBefore)
        ELSE LET e == ValidateEnd(end_date, today, answer2)
             IN  IF IsErr(e) THEN e ELSE Ok(<<s.ok, e.ok>>)

(***************************************************************************)
(* CSVExporter.  A label is a sequence of characters; a CSV file is the    *)
(* sequence of its rows, a row the sequence of its fields.                 *)
(***************************************************************************)
ReservedChars == {"<", ">", ":", "\"", "/", "\\", "|", "?", "*"}
Whitespace == {" ", "\t", "\n"}

\* re.sub(r'[<>:"/\\|?*]', "_", s)
SubReserved(s) == [k \in 1..Len(s) |-> IF s[k] \in ReservedChars THEN "_" ELSE s[k]]

\* re.sub(r"\s+", "_", s): every maximal run of whitespace becomes one "_"
RECURSIVE SubWhitespace(_)
SubWhitespace(s) ==
    IF s = <<>> THEN <<>>
    ELSE IF Head(s) \in Whitespace
         THEN IF Len(s) > 1 /\ s[2] \in Whitespace
              THEN SubWhitespace(Tail(s))
              ELSE <<"_">> \o SubWhitespace(Tail(s))
         ELSE <<Head(s)>> \o SubWhitespace(Tail(s))

\* a strip that trims the leading underscores only
RECURSIVE StripUnderscores_Leading(_)
StripUnderscores_Leading(s) ==
    IF s = <<>> THEN <<>>
    ELSE IF Head(s) = "_" THEN StripUnderscores_Leading(Tail(s))
    ELSE s

\* s.strip("_")
RECURSIVE StripUnderscores(_)
StripUnderscores(s) ==
    IF s = <<>> THEN <<>>
    ELSE IF Head(s) = "_" THEN StripUnderscores(Tail(s))
    ELSE IF s[Len(s)] = "_" THEN StripUnderscores(SubSeq(s, 1, Len(s) - 1))
    ELSE s

sanitize_filename(account_name) == StripUnderscores(SubWhitespace(SubReserved(account_name)))

\* the decimal digits of a natural number
Digit(n) == CASE n = 0 -> "0" [] n = 1 -> "1" [] n = 2 -> "2" [] n = 3 -> "3" [] n = 4 -> "4"
              [] n = 5 -> "5" [] n = 6 -> "6" [] n = 7 -> "7" [] n = 8 -> "8" [] n = 9 -> "9"

RECURSIVE Digits(_)
Digits(n) == IF n < 10 THEN <<Digit(n)>> ELSE Digits(n \div 10) \o <<Digit(n % 10)>>

\* a format that writes one decimal
FormatPrice_OneDecimal(price) ==
    LET cents == RoundToCents(price)
    IN  Digits(cents \div 100) \o <<".", Digit((cents % 100) \div 10)>>

\* f"{price:.2f}" for a price >= 0
FormatPrice(price) ==
    LET cents == RoundToCents(price)
    IN  Digits(cents \div 100) \o <<".", Digit((cents % 100) \div 10), Digit(cents % 10)>>

\* the characters that make csv.writer quote a field (QUOTE_MINIMAL)
CsvSpecial == {",", "\"", "\r", "\n"}

RECURSIVE DoubleQuotes(_)
DoubleQuotes(s) ==
    IF s = <<>> THEN <<>>
    ELSE (IF Head(s) = "\"" THEN <<"\"", "\"">> ELSE <<Head(s)>>) \o DoubleQuotes(Tail(s))

\* a field as csv.writer writes it: quoted, its quotes doubled, when it holds
\* a special character
CsvField(s) ==
    IF \E k \in 1..Len(s) : s[k] \in CsvSpecial
    THEN <<"\"">> \o DoubleQuotes(s) \o <<"\"">>
    ELSE s

\* a row that carries the sanitized label
CsvRow_Sanitized(date_str, price, account_name) ==
    <<date_str, FormatPrice(price), CsvField(sanitize_filename(account_name))>>

\* writer.writerow([date_str, f"{price:.2f}", account_name]); a date and a
\* formatted price hold no special character
CsvRow(date_str, price, account_name) ==
    <<date_str, FormatPrice(price), CsvField(account_name)>>

CsvHeader == <<"Date", "Balance", "Account">>

\* the rows written, header first
CsvRows(price_data, account_name) ==
    <<CsvHeader>> \o
    [k \in 1..Len(price_data) |-> CsvRow(price_data[k][1], price_data[k][2], account_name)]

\* output/{sanitized_name}_{start_date}_{end_date}.csv
CsvPath(account_name, start_date, end_date) ==
    [dir |-> "output", name |-> sanitize_filename(account_name),
     start |-> start_date, end |-> end_date, ext |-> ".csv"]

\* generate_csv: the file system after the call and the path returned
generate_csv(files, price_data, account_name, start_date, end_date) ==
    LET filepath == CsvPath(account_name, start_date, end_date)
    IN  [fs |-> [f \in DOMAIN files \cup {filepath} |->
                    IF f = filepath THEN CsvRows(price_data, account_name) ELSE files[f]],
         path |-> filepath]

(***************************************************************************)
(* InputValidator.validate_date_format and validate_required_params.  An   *)
(* absent argument (None) is the empty sequence.                           *)
(***************************************************************************)
None == <<>>

MsgBadFormat == <<"Error:", "Date must be in YYYY-MM-DD format">>
MsgMissingParam == <<"Error:", "Missing required parameter">>

\* datetime.strptime(date_str, "%Y-%m-%d")
validate_date_format(date_str) ==
    IF /\ Len(date_str) = 3
       /\ date_str[1] >= 1
       /\ date_str[2] \in 1..12
       /\ date_str[3] >= 1 /\ date_str[3] <= DaysInMonth(date_str[1], date_str[2])
    THEN Ok(Midnight(Ordinal(date_str[1], date_str[2], date_str[3])))
    ELSE Raise("ValueError", MsgBadFormat)

validate_required_params(entity_id, model_path, account_name, session_cookie) ==
    IF entity_id = "" \/ model_path = "" \/ account_name = <<>> \/ session_cookie = ""
    THEN Raise("ValueError", MsgMissingParam)
    ELSE Ok(TRUE)

(***************************************************************************)
(* URLParser.parse_cargurus_url.  A URL is held parsed: the segments of    *)
(* its path (path.split("/")) and the values of its query parameters.      *)
(***************************************************************************)
MsgUrlError == <<"Error parsing CarGurus URL:">>

\* int(text) then from_unix_milliseconds(...).strftime("%Y-%m-%d"), None on failure
UrlDate(values) ==
    IF values = <<>> THEN None
    ELSE IF values[1].t = "num" THEN Strftime(EpochTick + values[1].n)
    ELSE None

\* a timestamp fromtimestamp cannot hold: its OverflowError is not caught by
\* the inner handler and reaches `except Exception`
UrlOverflows(values) == values # <<>> /\ values[1].t = "huge"

parse_cargurus_url(url) ==
    IF Len(url.path_parts) < 3 \/ ~(\E k \in 1..Len(url.path_parts) : url.path_parts[k] = "price-trends")
    THEN Raise("ValueError", MsgUrlError \o <<"Invalid CarGurus URL: Must be a price-trends URL">>)
    ELSE IF url.entityIds = <<>>
    THEN Raise("ValueError", MsgUrlError \o <<"Invalid CarGurus URL: Missing entityIds parameter">>)
    ELSE IF UrlOverflows(url.startDate) \/ UrlOverflows(url.endDate)
    THEN Raise("ValueError", MsgUrlError \o <<"timestamp out of range">>)
    ELSE Ok(<<url.path_parts[Len(url.path_parts)], url.entityIds[1],
              UrlDate(url.startDate), UrlDate(url.endDate)>>)

(***************************************************************************)
(* CarGurusAPIClient.fetch_price_data.  `answer` is what the upstream did: *)
(*   [kind |-> "no_connection"]    session.get raised (connection, timeout)*)
(*   [kind |-> "response", status, login, body]                            *)
(*       status: the HTTP status; login: the final URL holds "login";      *)
(*       body: the JSON document, or NotJson                               *)
(***************************************************************************)
NotJson == JMk("notjson", 0, "", <<>>, NoKeys)

MsgRateLimited == <<"Error:", "Rate limited by CarGurus. Please try again later">>
MsgFetchFailed == <<"Error:", "Failed to fetch data from CarGurus">>
MsgInvalidCookie == <<"Error:", "Invalid session cookie. Please provide a valid JSESSIONID">>

\* a status test that takes every answer for a success
StatusRaises_Never(status) == FALSE

\* response.raise_for_status(): 4xx and 5xx raise
StatusRaises(status) == status >= 400 /\ status < 600

\* the body of the try block: the document or the RequestException raised
FetchBody(answer) ==
    IF answer.kind = "no_connection" THEN Raise("RequestException", <<"Connection failed">>)
    ELSE IF StatusRaises(answer.status)
         THEN Raise("RequestException", <<IF answer.status = 429 THEN "429" ELSE "status", "Error for url">>)
    ELSE IF answer.status = 401 \/ answer.login
         THEN Raise("RequestException", MsgInvalidCookie)
    ELSE IF answer.body = NotJson
         THEN Raise("RequestException", <<"Expecting value">>)
    ELSE Ok(answer.body)

\* except requests.exceptions.RequestException as e: raise HTTPError(...)
fetch_price_data(answer) ==
    LET r == FetchBody(answer)
    IN  IF IsOk(r) THEN r
        ELSE IF Contains(r.err.msg, "429") THEN Raise("HTTPError", MsgRateLimited)
        ELSE Raise("HTTPError", MsgFetchFailed \o r.err.msg)

(***************************************************************************)
(* A run of the command line: cli.main, which calls CarGurusScraper.scrape.*)
(* `call` holds the arguments of main, the clock (today, now_time: the     *)
(* time of day of datetime.now()) and the answers typed at the prompts.    *)
(***************************************************************************)
NoFiles == [f \in {} |-> <<>>]

NoScrape ==
    [entity_id |-> "", model_path |-> "", start_date |-> 0, end_date |-> 0,
     chunks |-> <<>>, i |-> 0, all_price_points |-> <<>>,
     normalized |-> FALSE, processed_data |-> <<>>, filled_data |-> <<>>]

runVars == <<pc, scrape, log, fs, stderr, exit_status, loop>>

\* the run variables of a specification that only calls one function
NoRun ==
    /\ pc = "idle"
    /\ scrape = NoScrape
    /\ log = <<>>
    /\ fs = NoFiles
    /\ stderr = <<>>
    /\ exit_status = "none"
    /\ loop = NotCalled

NoUrl == [path_parts |-> <<>>, entityIds |-> <<>>, startDate |-> <<>>, endDate |-> <<>>]

MsgBothGiven == <<"Error:", "Cannot specify both --url and individual --entity-id/--model-path parameters">>
MsgNeitherGiven == <<"Error:", "Must provide either --url OR both --entity-id and --model-path">>

\* `model_path, entity_id = <tuple>`
UnpackTwo(values) ==
    IF Len(values) = 2 THEN Ok(<<values[2], values[1]>>)
    ELSE IF Len(values) > 2 THEN Raise("ValueError", <<"too many values to unpack (expected 2)">>)
    ELSE Raise("ValueError", <<"not enough values to unpack (expected 2)">>)

\* cli.main, the choice of entity_id and model_path: <<entity_id, model_path>>
MainIds(args) ==
    IF args.url # NoUrl
    THEN IF args.entity_id # "" \/ args.model_path # ""
         THEN Raise("ValueError", MsgBothGiven)
         ELSE LET parsed == parse_cargurus_url(args.url)
              IN  IF IsErr(parsed) THEN parsed ELSE UnpackTwo(parsed.ok)
    ELSE IF args.entity_id = "" \/ args.model_path = ""
         THEN Raise("ValueError", MsgNeitherGiven)
         ELSE Ok(<<args.entity_id, args.model_path>>)

\* main's `except Exception as e: print(str(e), file=sys.stderr); sys.exit(1)`
Abort(e, at) ==
    /\ pc' = "exit"
    /\ stderr' = Append(stderr, e.msg)
    /\ exit_status' = "1"
    /\ ret' = [err |-> e, at |-> at]

\* cli.py 28-44: the arguments are sorted out
MainArgs ==
    /\ pc = "main"
    /\ LET ids == MainIds(call)
       IN  IF IsErr(ids)
           THEN Abort(ids.err, "main") /\ UNCHANGED scrape
           ELSE /\ pc' = "validate"
                /\ scrape' = [scrape EXCEPT !.entity_id = ids.ok[1], !.model_path = ids.ok[2]]
                /\ UNCHANGED <<ret, stderr, exit_status>>
    /\ UNCHANGED <<call, log, fs, loop>>

\* scraper.py 35-56: the validated range <<start_date, end_date>>, or the error
ScrapeRange(args) ==
    LET required == validate_required_params(scrape.entity_id, scrape.model_path,
                                             args.account_name, args.session_cookie)
        start == IF args.start_date # None THEN validate_date_format(args.start_date)
                 ELSE Ok(Midnight(args.today - RetentionDays))
        end == IF args.end_date # None THEN validate_date_format(args.end_date)
               ELSE Ok(Midnight(args.today) + args.now_time - Days(1))
    IN  IF IsErr(required) THEN required
        ELSE IF IsErr(start) THEN start
        ELSE IF IsErr(end) THEN end
        ELSE validate_date_range(start.ok, end.ok, args.today, args.answer1, args.answer2)

\* scraper.py 35-63: validation, then the chunks
ScrapeValidate ==
    /\ pc = "validate"
    /\ LET range == ScrapeRange(call)
       IN  IF IsErr(range)
           THEN Abort(range.err, "validate") /\ UNCHANGED scrape
           ELSE /\ pc' = "fetch"
                /\ scrape' = [scrape EXCEPT
                                !.start_date = range.ok[1],
                                !.end_date = range.ok[2],
                                !.chunks = generate_monthly_chunks(range.ok[1], range.ok[2])]
                /\ UNCHANGED <<ret, stderr, exit_status>>
    /\ UNCHANGED <<call, log, fs, loop>>

\* the characters of the strings the model iterates over
CharsOf == [x \in {"ab"} |-> <<"a", "b">>]

RECURSIVE KeysOf(_)
KeysOf(keys) ==
    IF keys = {} THEN <<>>
    ELSE LET k == CHOOSE x \in keys : TRUE IN <<JStr(k)>> \o KeysOf(keys \ {k})

\* len(x) and list.extend(x): the items x yields, or the TypeError of len()
PyItems(j) ==
    CASE j.t = "list" -> Ok(j.l)
      [] j.t = "str" -> Ok(IF j.s \in DOMAIN CharsOf
                           THEN [k \in 1..Len(CharsOf[j.s]) |-> JStr(CharsOf[j.s][k])]
                           ELSE <<JStr(j.s)>>)
      [] j.t = "dict" -> Ok(KeysOf(DOMAIN j.d))
      [] OTHER -> Raise("TypeError", <<"object has no len()">>)

\* scraper.py 74-77, the try block of one chunk: the points to add, or the error
ChunkTry(answer) ==
    LET response == fetch_price_data(answer)
    IN  IF IsErr(response) THEN response
        ELSE LET price_points == extract_price_points(response.ok)
             IN  IF IsErr(price_points) THEN price_points
                 ELSE PyItems(price_points.ok)

\* a handler that takes every ValueError for "no data"
NoDataCaught_AnyValueError(e) == e.type = "ValueError"

\* a handler that takes nothing
NoDataCaught_Nothing(e) == FALSE

\* scraper.py 78-83: except ValueError as e: if "No price data available" in str(e): continue
NoDataCaught(e) == e.type = "ValueError" /\ Contains(e.msg, "No price data available")

\* what the upstream may answer to the request for a chunk
JustPoints(points) == JDict([pricePointsEntities |-> JList(<<JDict([pricePoints |-> points])>>)])

ChunkDocs(chunk) ==
    LET at_start == JDict([date |-> JNum(to_unix_milliseconds(chunk[1])), price |-> JNum(25000500)])
        at_end == JDict([date |-> JNum(to_unix_milliseconds(chunk[2])), price |-> JNum(24995754)])
        before == JDict([date |-> JNum(to_unix_milliseconds(chunk[1] - Days(1))), price |-> JNum(25010250)])
        bad_date == JDict([date |-> JStr("invalid"), price |-> JNum(24995750)])
        huge_date == JDict([date |-> JHuge, price |-> JNum(24995750)])
    IN  {JEmptyDict,
         JustPoints(JList(<<>>)),
         JustPoints(JList(<<at_start>>)),
         JustPoints(JList(<<at_end, at_start>>)),
         JustPoints(JList(<<before>>)),
         JustPoints(JList(<<bad_date>>)),
         JustPoints(JList(<<huge_date>>)),
         JustPoints(JStr("ab")),
         JustPoints(JNum(7)),
         JDict([pricePointsEntities |-> JDict([a |-> JNum(1)])]),
         JDict([pricePointsEntities |-> JList(<<JNum(5)>>)])}

ChunkAnswers(chunk) ==
    {[kind |-> "no_connection", status |-> 0, login |-> FALSE, body |-> NotJson]}
    \cup [kind : {"response"}, status : {401, 429, 500}, login : {FALSE}, body : {NotJson}]
    \cup [kind : {"response"}, status : {200}, login : {TRUE}, body : {NotJson}]
    \cup [kind : {"response"}, status : {200}, login : {FALSE}, body : {NotJson} \cup ChunkDocs(chunk)]

\* a loop that never pauses
PauseBefore_Never(i) == <<>>

\* scraper.py 70-71: if i > 0: time.sleep(1)
PauseBefore(i) == IF i > 0 THEN <<[op |-> "sleep"]>> ELSE <<>>

\* scraper.py 65-83: one iteration of the loop over the chunks
FetchChunk ==
    /\ pc = "fetch"
    /\ scrape.i < Len(scrape.chunks)
    /\ LET chunk == scrape.chunks[scrape.i + 1]
       IN  \E answer \in ChunkAnswers(chunk) :
             LET fetch == [op |-> "fetch", chunk |-> scrape.i + 1,
                           startDate |-> to_unix_milliseconds(chunk[1]),
                           endDate |-> to_unix_milliseconds(chunk[2]),
                           answer |-> answer]
                 r == ChunkTry(answer)
             IN  /\ log' = log \o PauseBefore(scrape.i) \o <<fetch>>
                 /\ IF IsOk(r)
                    THEN /\ scrape' = [scrape EXCEPT !.i = @ + 1,
                                                     !.all_price_points = @ \o r.ok]
                         /\ UNCHANGED <<pc, ret, stderr, exit_status>>
                    ELSE IF NoDataCaught(r.err)
                    THEN /\ scrape' = [scrape EXCEPT !.i = @ + 1]
                         /\ UNCHANGED <<pc, ret, stderr, exit_status>>
                    ELSE Abort(r.err, "fetch") /\ UNCHANGED scrape
    /\ UNCHANGED <<call, fs, loop>>

\* scraper.py 85-100: normalization, then gap filling
ProcessAndFill ==
    /\ pc = "fetch"
    /\ scrape.i = Len(scrape.chunks)
    /\ LET processed == process_price_points(scrape.all_price_points)
       IN  IF IsErr(processed)
           THEN Abort(processed.err, "process") /\ UNCHANGED scrape
           ELSE LET filled == fill_date_gaps(processed.ok, scrape.start_date, scrape.end_date)
                IN  IF IsErr(filled)
                    THEN /\ Abort(filled.err, "fill")
                         /\ scrape' = [scrape EXCEPT !.normalized = TRUE,
                                                     !.processed_data = processed.ok]
                    ELSE /\ pc' = "export"
                         /\ scrape' = [scrape EXCEPT !.normalized = TRUE,
                                                     !.processed_data = processed.ok,
                                                     !.filled_data = filled.ok]
                         /\ UNCHANGED <<ret, stderr, exit_status>>
    /\ UNCHANGED <<call, log, fs, loop>>

\* scraper.py 102-107 and cli.py 54: the CSV is written and main returns
ExportCsv ==
    /\ pc = "export"
    /\ LET actual_start_date_str == IF call.start_date # None THEN call.start_date
                                    ELSE Strftime(scrape.start_date)
           actual_end_date_str == IF call.end_date # None THEN call.end_date
                                  ELSE Strftime(scrape.end_date)
           written == generate_csv(fs, scrape.filled_data, call.account_name,
                                   actual_start_date_str, actual_end_date_str)
       IN  /\ fs' = written.fs
           /\ ret' = Ok(written.path)
    /\ pc' = "exit"
    /\ exit_status' = "0"
    /\ UNCHANGED <<call, scrape, log, stderr, loop>>

(***************************************************************************)
(* Sequences of bounded length over a set.                                 *)
(***************************************************************************)
SeqUpTo(S, n) == UNION {[1..k -> S] : k \in 0..n}

(***************************************************************************)
(* The chunker on its own: every pair of datetimes of a window that holds  *)
(* a year boundary, the end of a 31-day month and the end of a leap        *)
(* February.                                                               *)
(***************************************************************************)
ChunkWindowDays == 80
ChunkFirstDay == Ordinal(2023, 12, 14)
ChunkTicks == Midnight(ChunkFirstDay)..(Midnight(ChunkFirstDay + ChunkWindowDays) - 1)

InitChunks ==
    /\ call \in [fn : {"generate_monthly_chunks"}, start_date : ChunkTicks, end_date : ChunkTicks]
    /\ ret = NotCalled
    /\ NoRun

CallChunks ==
    /\ call.fn = "generate_monthly_chunks"
    /\ ret = NotCalled
    /\ ret' = Ok(generate_monthly_chunks(call.start_date, call.end_date))
    /\ UNCHANGED <<call, runVars>>

SpecChunks == InitChunks /\ [][CallChunks]_vars

(***************************************************************************)
(* The chunker step by step: one step per iteration of the while loop of   *)
(* generate_monthly_chunks, then the return, for every pair of datetimes   *)
(* on days around a year boundary and the ends of months (start before,    *)
(* at and after end).  The loop runs on as long as it can take a step.     *)
(***************************************************************************)
InitChunkLoop ==
    /\ \E ticks \in {{Midnight(d) + t :
                          d \in {Ordinal(2023, 11, 30), Ordinal(2023, 12, 14),
                                 Ordinal(2023, 12, 31), Ordinal(2024, 1, 1),
                                 Ordinal(2024, 1, 31), Ordinal(2024, 2, 29),
                                 Ordinal(2024, 3, 1)},
                          t \in 0..(TicksPerDay - 1)}} :
          call \in [fn : {"generate_monthly_chunks"}, start_date : ticks, end_date : ticks]
    /\ loop = [current |-> call.start_date, chunks |-> <<>>]
    /\ ret = NotCalled
    /\ pc = "idle"
    /\ scrape = NoScrape
    /\ log = <<>>
    /\ fs = NoFiles
    /\ stderr = <<>>
    /\ exit_status = "none"

\* processors.py 26-34: one iteration
ChunkLoopStep ==
    /\ ret = NotCalled
    /\ ChunkLoopCond(loop.current, call.end_date)
    /\ LET next_month == NextMonth(loop.current)
           chunk_end == ChunkEnd(next_month, call.end_date)
       IN  loop' = [current |-> next_month,
                    chunks |-> Append(loop.chunks, <<loop.current, chunk_end>>)]
    /\ UNCHANGED <<call, ret, pc, scrape, log, fs, stderr, exit_status>>

\* processors.py 26 and 36: the condition fails and the chunks are returned
ChunkLoopReturn ==
    /\ ret = NotCalled
    /\ ~ChunkLoopCond(loop.current, call.end_date)
    /\ ret' = Ok(loop.chunks)
    /\ UNCHANGED <<call, loop, pc, scrape, log, fs, stderr, exit_status>>

NextChunkLoop == ChunkLoopStep \/ ChunkLoopReturn

SpecChunkLoop == InitChunkLoop /\ [][NextChunkLoop]_vars /\ WF_vars(NextChunkLoop)

(***************************************************************************)
(* The gap filler on its own: every series of at most MaxSeries entries    *)
(* over the days of a window across a month end, sorted or not, with or    *)
(* without repeated dates, and every pair of bounds in the window.         *)
(***************************************************************************)
MaxSeries == 2
FillWindowDays == 4
FillFirstDay == Ordinal(2024, 1, 30)
FillDays == FillFirstDay..(FillFirstDay + FillWindowDays - 1)
FillPrices == {100000, 110000}
FillEntries == {<<Strftime(Midnight(d)), p>> : d \in FillDays, p \in FillPrices}
FillEnds == Midnight(FillFirstDay)..(Midnight(FillFirstDay + FillWindowDays) - 1)

InitFill ==
    /\ call \in [fn : {"fill_date_gaps"},
                 price_data : SeqUpTo(FillEntries, MaxSeries),
                 start_date : {Midnight(d) : d \in FillDays},
                 end_date : FillEnds]
    /\ ret = NotCalled
    /\ NoRun

CallFill ==
    /\ call.fn = "fill_date_gaps"
    /\ ret = NotCalled
    /\ ret' = fill_date_gaps(call.price_data, call.start_date, call.end_date)
    /\ UNCHANGED <<call, runVars>>

SpecFill == InitFill /\ [][CallFill]_vars

(***************************************************************************)
(* The extractor on its own: responses of every shape.                     *)
(***************************************************************************)
SamplePoint(day, tick, price) ==
    JDict([date |-> JNum(to_unix_milliseconds(Midnight(day) + tick)), price |-> JNum(price)])

PointA == SamplePoint(Ordinal(2024, 1, 2), 0, 25000500)
PointB == SamplePoint(Ordinal(2024, 1, 1), 1, 24995754)

PointLists == {JList(<<>>), JList(<<PointA>>), JList(<<PointA, PointB>>)}

PointsValues ==
    PointLists \cup {JNull, JStr("abc"), JStr(""), JNum(7), JNum(0), JBool(FALSE),
                     JEmptyDict, JDict([a |-> JNum(1)])}

Entities ==
    {JDict([pricePoints |-> v]) : v \in PointsValues}
    \cup {JEmptyDict, JDict([other |-> JNum(1)])}
    \cup {JNull, JNum(5), JStr("x"), JList(<<>>)}

SecondEntities == {JDict([pricePoints |-> JList(<<PointB>>)]), JEmptyDict, JNull}

EntityCollections ==
    {JList(<<>>), JNull, JStr(""), JStr("abc"), JNum(5), JNum(0), JEmptyDict,
     JDict([a |-> JNum(1)])}
    \cup {JList(<<e>>) : e \in Entities}
    \cup {JList(<<e, f>>) : e \in Entities, f \in SecondEntities}

Responses ==
    {JDict([pricePointsEntities |-> c]) : c \in EntityCollections}
    \cup {JEmptyDict, JDict([someOtherKey |-> JStr("value")]), JList(<<>>), JNull, JStr("x")}

InitExtract ==
    /\ call \in [fn : {"extract_price_points"}, api_response : Responses]
    /\ ret = NotCalled
    /\ NoRun

CallExtract ==
    /\ call.fn = "extract_price_points"
    /\ ret = NotCalled
    /\ ret' = extract_price_points(call.api_response)
    /\ UNCHANGED <<call, runVars>>

SpecExtract == InitExtract /\ [][CallExtract]_vars

(***************************************************************************)
(* The normalizer on its own: every batch of at most MaxBatch raw points,  *)
(* well-formed and malformed.                                              *)
(***************************************************************************)
MaxBatch == 3

RawDates ==
    {JNum(to_unix_milliseconds(Midnight(Ordinal(2024, 1, 2)))),
     JNum(to_unix_milliseconds(Midnight(Ordinal(2024, 1, 1)) + 1))}
RawPrices == {JNum(25000500), JNum(24995754), JStr("12.5")}

WellFormedPoints == {JDict([date |-> d, price |-> p]) : d \in RawDates, p \in RawPrices}

MalformedPoints ==
    LET d == JNum(to_unix_milliseconds(Midnight(Ordinal(2024, 1, 3))))
        p == JNum(25010250)
    IN  {JDict([date |-> JStr("invalid"), price |-> p]),
         JDict([price |-> p]),
         JDict([date |-> d]),
         JDict([date |-> d, price |-> JStr("invalid")]),
         JDict([date |-> JNull, price |-> p]),
         JDict([date |-> d, price |-> JNull]),
         JDict([date |-> JHuge, price |-> p]),
         JDict([date |-> d, price |-> JHuge]),
         JNull, JStr("c"), JNum(5)}

RawPoints == WellFormedPoints \cup MalformedPoints

InitProcess ==
    /\ call \in [fn : {"process_price_points"}, price_points : SeqUpTo(RawPoints, MaxBatch)]
    /\ ret = NotCalled
    /\ NoRun

CallProcess ==
    /\ call.fn = "process_price_points"
    /\ ret = NotCalled
    /\ ret' = process_price_points(call.price_points)
    /\ UNCHANGED <<call, runVars>>

SpecProcess == InitProcess /\ [][CallProcess]_vars

(***************************************************************************)
(* The validator on its own: ranges around the two limits (today - 365     *)
(* days and yesterday) and every pair of answers.                          *)
(***************************************************************************)
ValidateTodays == {Ordinal(2024, 3, 1), Ordinal(2024, 3, 2)}
Answers == {"y", "YES", "n", ""}

NearLimits(today) ==
    {today - RetentionDays - 1, today - RetentionDays, today - RetentionDays + 1,
     today - 2, today - 1, today, today + 1}

InitValidate ==
    /\ \E today \in ValidateTodays :
         call \in [fn : {"validate_date_range"},
                   today : {today},
                   start_date : {Midnight(d) : d \in NearLimits(today)},
                   end_date : {Midnight(d) + t : d \in NearLimits(today), t \in 0..(TicksPerDay - 1)},
                   answer1 : Answers,
                   answer2 : Answers]
    /\ ret = NotCalled
    /\ NoRun

CallValidate ==
    /\ call.fn = "validate_date_range"
    /\ ret = NotCalled
    /\ ret' = validate_date_range(call.start_date, call.end_date, call.today,
                                  call.answer1, call.answer2)
    /\ UNCHANGED <<call, runVars>>

SpecValidate == InitValidate /\ [][CallValidate]_vars

(***************************************************************************)
(* The serializer on its own: every series of at most MaxCsvRows entries   *)
(* and labels with and without reserved characters and whitespace.         *)
(***************************************************************************)
MaxCsvRows == 2
CsvDates == {<<2024, 1, 1>>, <<2024, 1, 2>>}
CsvPrices == {0, 125, 9999, 25000000, 25010123, 24995750}
CsvLabels ==
    {<<"C", "a", "r">>,
     <<"C", "a", "r", ":", "M", "*", "2", "?", "F", "|", "N">>,
     <<" ", "2", "0", "2", "2", " ", " ", "H", "o", "n", "d", "a", " ">>,
     <<"/", "_", "a", "\t", "\n", "b", "_">>,
     <<"E", "X", ",", " ", "\"", "L", "\"">>}

InitCsv ==
    /\ call \in [fn : {"generate_csv"},
                 price_data : SeqUpTo(CsvDates \X CsvPrices, MaxCsvRows),
                 account_name : CsvLabels,
                 start_date : {<<2024, 1, 1>>},
                 end_date : {<<2024, 1, 2>>}]
    /\ ret = NotCalled
    /\ NoRun

CallCsv ==
    /\ call.fn = "generate_csv"
    /\ ret = NotCalled
    /\ ret' = Ok(generate_csv(NoFiles, call.price_data, call.account_name,
                              call.start_date, call.end_date))
    /\ UNCHANGED <<call, runVars>>

SpecCsv == InitCsv /\ [][CallCsv]_vars

(***************************************************************************)
(* The sanitizer on its own: every label of at most MaxLabel characters    *)
(* over LabelChars, and the labels of the tests.                           *)
(***************************************************************************)
MaxLabel == 4
LabelChars == {"a", "_", " ", "\t", ":", "*"}
TestLabels ==
    {<<"C", "a", "r", ":", "M", "o", "d", "e", "l", "*", "2", "0", "2", "2", "?",
       "F", "i", "l", "e", "|", "N", "a", "m", "e">>,
     <<"2", "0", "2", "2", " ", " ", " ", "H", "o", "n", "d", "a", " ", " ", " ", " ",
       "C", "i", "v", "i", "c">>,
     <<" ", " ", "2", "0", "2", "2", " ", "H", "o", "n", "d", "a", " ", " ">>,
     <<"<", ">", ":", "\"", "/", "\\", "|", "?", "*">>,
     <<"a", "<", "b", ">", "c", "\"", "d", "/", "e", "\\", "f", "\n", "\n", "g">>}

InitSanitize ==
    /\ call \in [fn : {"sanitize_filename"},
                 account_name : SeqUpTo(LabelChars, MaxLabel) \cup TestLabels]
    /\ ret = NotCalled
    /\ NoRun

CallSanitize ==
    /\ call.fn = "sanitize_filename"
    /\ ret = NotCalled
    /\ ret' = Ok(sanitize_filename(call.account_name))
    /\ UNCHANGED <<call, runVars>>

SpecSanitize == InitSanitize /\ [][CallSanitize]_vars

(***************************************************************************)
(* fetch_price_data called once.  The upstream refuses the connection or   *)
(* times out, or answers with a status of each class (2xx; 3xx that        *)
(* session.get does not follow: 300 without Location, 304; 4xx; 5xx), on   *)
(* the requested URL or on a login URL, with a body that is a JSON         *)
(* document or is not JSON.                                                *)
(***************************************************************************)
FetchAnswers ==
    {[kind |-> "no_connection", status |-> 0, login |-> FALSE, body |-> NotJson]}
    \cup [kind : {"response"},
          status : {200, 201, 204, 300, 304, 401, 403, 404, 429, 500, 503},
          login : BOOLEAN,
          body : {NotJson, JEmptyDict, JDict([pricePointsEntities |-> JList(<<>>)]),
                  JDict([someOtherKey |-> JStr("value")])}]

InitFetch ==
    /\ call \in [fn : {"fetch_price_data"}, answer : FetchAnswers]
    /\ ret = NotCalled
    /\ NoRun

CallFetch ==
    /\ call.fn = "fetch_price_data"
    /\ ret = NotCalled
    /\ ret' = fetch_price_data(call.answer)
    /\ UNCHANGED <<call, runVars>>

SpecFetch == InitFetch /\ [][CallFetch]_vars

(***************************************************************************)
(* A run of main.  The clock stands at RunToday; the ranges asked for give *)
(* no chunk, one chunk, or several, and reach both prompts of the          *)
(* validator; the upstream answers each request as ChunkAnswers allows.    *)
(***************************************************************************)
RunToday == Ordinal(2024, 3, 2)

RunRanges ==
    {<<<<2024, 1, 30>>, <<2024, 2, 2>>>>,
     <<<<2024, 1, 31>>, <<2024, 2, 1>>>>,
     <<<<2023, 12, 31>>, <<2024, 2, 2>>>>,
     <<<<2024, 2, 28>>, None>>,
     <<<<2024, 2, 29>>, <<2024, 3, 5>>>>,
     <<<<2024, 3, 1>>, <<2024, 3, 2>>>>,
     <<<<2023, 3, 1>>, <<2023, 3, 5>>>>,
     <<None, <<2023, 3, 4>>>>,
     <<<<2024, 2, 30>>, <<2024, 3, 1>>>>,
     <<<<2024, 2, 2>>, <<2024, 1, 30>>>>}

GoodUrl ==
    [path_parts |-> <<"", "research", "price-trends", "Honda-Civic-d2441">>,
     entityIds |-> <<"c32015">>, startDate |-> <<>>, endDate |-> <<>>]

RunIds ==
    {[url |-> NoUrl, entity_id |-> "c32015", model_path |-> "Honda-Civic-d2441"],
     [url |-> NoUrl, entity_id |-> "c32015", model_path |-> ""],
     [url |-> GoodUrl, entity_id |-> "", model_path |-> ""],
     [url |-> GoodUrl, entity_id |-> "c32015", model_path |-> ""],
     [url |-> [GoodUrl EXCEPT !.entityIds = <<>>], entity_id |-> "", model_path |-> ""]}

RunLabels == {<<"C", "a", "r">>, <<"M", "y", " ", "C", "a", "r", "/", "2">>}

InitScrape ==
    /\ \E range \in RunRanges, ids \in RunIds :
         call \in [fn : {"main"},
                   url : {ids.url}, entity_id : {ids.entity_id}, model_path : {ids.model_path},
                   start_date : {range[1]}, end_date : {range[2]},
                   account_name : RunLabels,
                   session_cookie : {"JSESSIONID", ""},
                   today : {RunToday},
                   now_time : 0..(TicksPerDay - 1),
                   answer1 : {"y", "n"}, answer2 : {"y", "n"}]
    /\ ret = NotCalled
    /\ pc = "main"
    /\ scrape = NoScrape
    /\ log = <<>>
    /\ fs = NoFiles
    /\ stderr = <<>>
    /\ exit_status = "none"
    /\ loop = NotCalled

NextScrape ==
    \/ MainArgs
    \/ ScrapeValidate
    \/ FetchChunk
    \/ ProcessAndFill
    \/ ExportCsv

SpecScrape == InitScrape /\ [][NextScrape]_vars

(***************************************************************************)
(* Claims about the chunker.                                               *)
(***************************************************************************)
\* the chunks, read as closed intervals of calendar days, that hold a day
ChunksHolding(chunks, day) ==
    {k \in 1..Len(chunks) : DateOf(chunks[k][1]) <= day /\ day <= DateOf(chunks[k][2])}

ChunksCalled == call.fn = "generate_monthly_chunks" /\ IsOk(ret)

CalendarDates == TimeOf(call.start_date) = 0 /\ TimeOf(call.end_date) = 0

\* C1: for calendar dates start < end the chunks partition [start, end]: every
\* day of [start, end] lies in exactly one chunk, and no chunk holds a day
\* outside [start, end].
C1_ChunksPartition ==
    (ChunksCalled /\ CalendarDates /\ call.start_date < call.end_date) =>
        /\ \A day \in DateOf(call.start_date)..DateOf(call.end_date) :
               Cardinality(ChunksHolding(ret.ok, day)) = 1
        /\ \A k \in 1..Len(ret.ok) :
               /\ DateOf(call.start_date) <= DateOf(ret.ok[k][1])
               /\ DateOf(ret.ok[k][2]) <= DateOf(call.end_date)

(***************************************************************************)
(* Claims about the gap filler.                                            *)
(***************************************************************************)
\* the calendar day a "YYYY-MM-DD" string names
DayOfStr(s) == Ordinal(s[1], s[2], s[3])

FillCalled == call.fn = "fill_date_gaps" /\ ret # NotCalled

SetMin(S) == CHOOSE x \in S : \A y \in S : x <= y

\* the days the series knows, and those of them inside the bounds
KnownDays == {DayOfStr(call.price_data[k][1]) : k \in 1..Len(call.price_data)}
KnownDaysInBounds ==
    {d \in KnownDays : DateOf(call.start_date) <= d /\ d <= DateOf(call.end_date)}

\* the output has exactly one entry for each day of S and holds nothing else
CoversExactly(out, S) ==
    /\ \A d \in S : Cardinality({k \in 1..Len(out) : DayOfStr(out[k][1]) = d}) = 1
    /\ \A k \in 1..Len(out) : DayOfStr(out[k][1]) \in S

\* C2 as stated: for a non-empty series the output has exactly one entry for
\* every day from the earliest known date of the series through end, and none
\* for a day before that date (checked for start <= end).
C2_FromFirstKnownDate ==
    (FillCalled /\ call.price_data # <<>> /\ call.start_date <= call.end_date) =>
        /\ IsOk(ret)
        /\ CoversExactly(ret.ok, SetMin(KnownDays)..DateOf(call.end_date))

\* C2 amended: for a non-empty series the output has exactly one entry for
\* every day from the earliest known date that lies inside [start, end]
\* through end, and no entry for any other day (no entry at all when no known
\* date lies inside [start, end]).
C2_FromFirstKnownDateInBounds ==
    (FillCalled /\ call.price_data # <<>>) =>
        /\ IsOk(ret)
        /\ CoversExactly(ret.ok,
               IF KnownDaysInBounds = {} THEN {}
               ELSE SetMin(KnownDaysInBounds)..DateOf(call.end_date))

\* a leading gap and a forward fill: the first known date inside the bounds is
\* after start and before end, and a date before start is known too
C2_Witness ==
    /\ FillCalled /\ IsOk(ret)
    /\ KnownDaysInBounds # {}
    /\ DateOf(call.start_date) < SetMin(KnownDaysInBounds)
    /\ SetMin(KnownDaysInBounds) < DateOf(call.end_date)
    /\ SetMin(KnownDays) < DateOf(call.start_date)
    /\ Len(ret.ok) = DateOf(call.end_date) - SetMin(KnownDaysInBounds) + 1

(***************************************************************************)
(* Claims about the normalizer.                                            *)
(***************************************************************************)
ProcessCalled == call.fn = "process_price_points" /\ ret # NotCalled

\* a raw point with a timestamp and a price that are both usable numbers
WellFormed(point) ==
    /\ point.t = "dict"
    /\ {"date", "price"} \subseteq DOMAIN point.d
    /\ point.d["date"].t = "num"
    /\ \/ point.d["price"].t = "num"
       \/ point.d["price"].t = "str" /\ point.d["price"].s \in DOMAIN NumericStrings

\* the (date, price) pair a well-formed point stands for
PairOf(point) ==
    <<Strftime(EpochTick + point.d["date"].n),
      Round2(IF point.d["price"].t = "num" THEN point.d["price"].n
             ELSE NumericStrings[point.d["price"].s])>>

Occurrences(seq, x) == Cardinality({k \in 1..Len(seq) : seq[k] = x})

\* C6: process_price_points never fails on a batch: every malformed point is
\* skipped and the output holds exactly one pair for each well-formed point
\* and nothing else.
C6_NeverFails ==
    ProcessCalled =>
        /\ IsOk(ret)
        /\ \A x \in {ret.ok[k] : k \in 1..Len(ret.ok)}
                \cup {PairOf(call.price_points[k]) :
                        k \in {j \in 1..Len(call.price_points) : WellFormed(call.price_points[j])}} :
               Occurrences(ret.ok, x) =
                   Cardinality({k \in 1..Len(call.price_points) :
                                   /\ WellFormed(call.price_points[k])
                                   /\ PairOf(call.price_points[k]) = x})

(***************************************************************************)
(* Claims about the extractor.                                             *)
(***************************************************************************)
ExtractCalled == call.fn = "extract_price_points" /\ ret # NotCalled

RaisedNoData == IsErr(ret) /\ ret.err.type = "ValueError" /\ ret.err.msg = MsgNoData
RaisedUnexpected == IsErr(ret) /\ ret.err.type = "ValueError" /\ ret.err.msg = MsgUnexpected

IsListJ(j) == j.t = "list"
IsRecordJ(j) == j.t = "dict"

\* the shape of the response
HasEntities == IsRecordJ(call.api_response) /\ "pricePointsEntities" \in DOMAIN call.api_response.d
EntitiesJ == call.api_response.d["pricePointsEntities"]
EntitiesEmptyOrAbsent ==
    IsRecordJ(call.api_response) /\ (~HasEntities \/ EntitiesJ = JList(<<>>))
HasFirstEntity ==
    HasEntities /\ IsListJ(EntitiesJ) /\ EntitiesJ.l # <<>> /\ IsRecordJ(EntitiesJ.l[1])
FirstEntityJ == EntitiesJ.l[1]
HasPoints == HasFirstEntity /\ "pricePoints" \in DOMAIN FirstEntityJ.d
PointsJ == FirstEntityJ.d["pricePoints"]

\* a response of the documented shape: a record whose entity collection, when
\* there, is a list of records whose point collection, when there, is a list
WellShaped ==
    /\ IsRecordJ(call.api_response)
    /\ HasEntities =>
         /\ IsListJ(EntitiesJ)
         /\ \A k \in 1..Len(EntitiesJ.l) :
              /\ IsRecordJ(EntitiesJ.l[k])
              /\ "pricePoints" \in DOMAIN EntitiesJ.l[k].d => IsListJ(EntitiesJ.l[k].d["pricePoints"])

StructurallyUnexpected ==
    /\ IsRecordJ(call.api_response)
    /\ \/ ~HasEntities
       \/ HasEntities /\ ~IsListJ(EntitiesJ)
       \/ HasEntities /\ IsListJ(EntitiesJ) /\ EntitiesJ.l # <<>> /\ ~IsRecordJ(EntitiesJ.l[1])
       \/ HasFirstEntity /\ ~HasPoints
       \/ HasPoints /\ ~IsListJ(PointsJ)

\* C8: every structurally unexpected response fails with
\* UnexpectedResponseFormat, with no other error and no successful return.
C8_UnexpectedFormat ==
    (ExtractCalled /\ StructurallyUnexpected) => RaisedUnexpected

(***************************************************************************)
(* Claims about the validator.                                             *)
(***************************************************************************)
ValidateCalled == call.fn = "validate_date_range" /\ ret # NotCalled

\* C9: whenever validate_date_range returns a pair (start, end), for any
\* answers to its prompts, start is strictly before end.
C9_ReturnsOrderedRange ==
    (ValidateCalled /\ IsOk(ret)) => ret.ok[1] < ret.ok[2]

(***************************************************************************)
(* Claims about the serializer.                                            *)
(***************************************************************************)
CsvCalled == call.fn = "generate_csv" /\ ret # NotCalled

DigitChars == {"0", "1", "2", "3", "4", "5", "6", "7", "8", "9"}
DigitValue(c) == CHOOSE n \in 0..9 : Digit(n) = c

\* a fixed-point string with exactly two decimals: digits, ".", two digits
IsFixed2(str) ==
    /\ Len(str) >= 4
    /\ str[Len(str) - 2] = "."
    /\ \A k \in 1..Len(str) : k # Len(str) - 2 => str[k] \in DigitChars

RECURSIVE NumberOf(_)
NumberOf(digits) ==
    IF digits = <<>> THEN 0
    ELSE NumberOf(SubSeq(digits, 1, Len(digits) - 1)) * 10 + DigitValue(digits[Len(digits)])

\* the hundredths a fixed-point string with two decimals denotes
CentsOf(str) ==
    NumberOf(SubSeq(str, 1, Len(str) - 3)) * 100 + NumberOf(SubSeq(str, Len(str) - 1, Len(str)))

\* the nearest hundredth to a number of thousandths (a tie to either side)
NearestCents(price, cents) ==
    LET diff == IF cents * 10 >= price THEN cents * 10 - price ELSE price - cents * 10
    IN  diff <= 5

WrittenRows == ret.ok.fs[ret.ok.path]

RECURSIVE Undouble(_)
Undouble(s) ==
    IF s = <<>> THEN <<>>
    ELSE IF Len(s) >= 2 /\ s[1] = "\"" /\ s[2] = "\""
         THEN <<"\"">> \o Undouble(SubSeq(s, 3, Len(s)))
         ELSE <<Head(s)>> \o Undouble(Tail(s))

\* the text a reader of the CSV file gets from a written field
CsvRead(field) ==
    IF field # <<>> /\ field[1] = "\""
    THEN Undouble(SubSeq(field, 2, Len(field) - 1))
    ELSE field

FetchEvents == {k \in 1..Len(log) : log[k].op = "fetch"}

\* the chunks (by position in scrape.chunks) that were requested
FetchedChunks == {log[k].chunk : k \in FetchEvents}

\* the fetch and extraction of a chunk, for what the upstream answered
FetchExtract(answer) ==
    LET response == fetch_price_data(answer)
    IN  IF IsErr(response) THEN response ELSE extract_price_points(response.ok)

\* the "no data for this sub-range" condition
EndsInNoData(answer) ==
    IsErr(FetchExtract(answer)) /\ FetchExtract(answer).err.msg = MsgNoData

\* a failure of the fetch or of the extraction that is not "no data"
FailsOtherwise(answer) ==
    IsErr(FetchExtract(answer)) /\ FetchExtract(answer).err.msg # MsgNoData

RunEnded == pc = "exit"

AbortedAt(stage) == RunEnded /\ IsErr(ret) /\ ret.at = stage

\* the step that requests a chunk and gets "no data" for it
NoDataStep ==
    /\ Len(log') > Len(log)
    /\ log'[Len(log')].op = "fetch"
    /\ EndsInNoData(log'[Len(log')].answer)

NoDataStepContinues ==
    NoDataStep =>
        /\ scrape'.all_price_points = scrape.all_price_points
        /\ scrape'.i = scrape.i + 1
        /\ pc' = "fetch"
        /\ exit_status' = "none"
        /\ stderr' = stderr

\* once the run has ended, the chunks after a "no data" chunk were all
\* requested, unless one of them failed with another error
LaterChunksFetched ==
    \A k \in FetchEvents :
        (EndsInNoData(log[k].answer) /\ RunEnded) =>
            \/ (log[k].chunk + 1)..Len(scrape.chunks) \subseteq FetchedChunks
            \/ AbortedAt("fetch") /\ FailsOtherwise(log[Len(log)].answer)
            \/ AbortedAt("fetch") /\ ~IsErr(FetchExtract(log[Len(log)].answer))

\* C3: a chunk whose fetch/extract ends in "no data for this sub-range" does
\* not abort the run: the step leaves the accumulated point list unchanged and
\* moves on to the next chunk, and the later chunks are still requested.
C3_NoDataContinues == [][NoDataStepContinues]_vars /\ []LaterChunksFetched

\* a finished run that wrote its CSV although an earlier chunk had no data and
\* a later chunk was requested
C3_Witness ==
    /\ RunEnded /\ exit_status = "0" /\ fs # NoFiles
    /\ \E k \in FetchEvents :
          /\ EndsInNoData(log[k].answer)
          /\ log[k].chunk < Len(scrape.chunks)
          /\ log[k].chunk + 1 \in FetchedChunks

\* C4: a chunk whose fetch or extraction fails with an error other than "no
\* data" is the last one requested: the run has ended with exit status 1, the
\* error message is what was printed to stderr, and no CSV file exists.
C4_OtherErrorAborts ==
    \A k \in FetchEvents :
        FailsOtherwise(log[k].answer) =>
            /\ k = Len(log)
            /\ RunEnded
            /\ exit_status = "1"
            /\ stderr = <<FetchExtract(log[k].answer).err.msg>>
            /\ fs = NoFiles

\* a run aborted by such an error in a chunk that had later chunks to go
C4_Witness ==
    /\ RunEnded /\ exit_status = "1"
    /\ \E k \in FetchEvents :
          /\ FailsOtherwise(log[k].answer)
          /\ FetchExtract(log[k].answer).err.type = "ValueError"
          /\ 1 < log[k].chunk /\ log[k].chunk < Len(scrape.chunks)

\* the overall "no price data available" failure of the run
OverallNoData == AbortedAt("fill") /\ ret.err.msg = MsgNoData

\* C5: the overall "no price data available" failure is raised only after
\* every chunk was requested (fetched or skipped), it is raised exactly when the
\* normalized series of the run is empty, and then the run ends with exit
\* status 1 and without a CSV file.
C5_OverallNoData ==
    /\ OverallNoData =>
          /\ scrape.i = Len(scrape.chunks)
          /\ FetchedChunks = 1..Len(scrape.chunks)
          /\ fs = NoFiles
          /\ exit_status = "1"
    /\ scrape.normalized =>
          /\ scrape.processed_data = process_price_points(scrape.all_price_points).ok
          /\ (scrape.processed_data = <<>>) <=> OverallNoData

\* the overall failure after two chunks: one had no data, the other only a
\* malformed point
C5_Witness ==
    /\ OverallNoData
    /\ Len(scrape.chunks) >= 2
    /\ scrape.all_price_points # <<>>
    /\ \E k \in FetchEvents : EndsInNoData(log[k].answer)

(***************************************************************************)
(* Claims about the file a successful run writes.                          *)
(***************************************************************************)
RunSucceeded == RunEnded /\ exit_status = "0" /\ IsOk(ret)

\* C11: a successful scrape writes its CSV to
\* output/{sanitized-label}_{start}_{end}.csv, where {start} and {end} are the
\* YYYY-MM-DD dates of the range that was fetched and gap-filled, that is, the
\* range validation returned after any clamping.
C11_FilenameNamesFetchedRange ==
    RunSucceeded =>
        /\ ret.ok \in DOMAIN fs
        /\ ret.ok.dir = "output"
        /\ ret.ok.name = sanitize_filename(call.account_name)
        /\ ret.ok.start = Strftime(scrape.start_date)
        /\ ret.ok.end = Strftime(scrape.end_date)
        /\ ret.ok.ext = ".csv"

(***************************************************************************)
(* Claims about the sanitizer.                                             *)
(***************************************************************************)
SanitizeCalled == call.fn = "sanitize_filename" /\ ret # NotCalled

\* the three steps the claim names, stated position by position
ReservedReplaced(label) ==
    [k \in 1..Len(label) |-> IF label[k] \in ReservedChars THEN "_" ELSE label[k]]

\* the positions that survive the collapse: every character that is not
\* whitespace, and the first character of every maximal run of whitespace
RunStarts(s) ==
    {k \in 1..Len(s) : s[k] \in Whitespace => (k = 1 \/ s[k - 1] \notin Whitespace)}

RunsCollapsed(s) ==
    LET kept == RunStarts(s)
        at(n) == CHOOSE k \in kept : Cardinality({j \in kept : j < k}) = n - 1
    IN  [n \in 1..Cardinality(kept) |-> IF s[at(n)] \in Whitespace THEN "_" ELSE s[at(n)]]

Trimmed(s) ==
    LET inner == {k \in 1..Len(s) : s[k] # "_"}
    IN  IF inner = {} THEN <<>>
        ELSE SubSeq(s, SetMin(inner), CHOOSE k \in inner : \A j \in inner : j <= k)

\* C12: sanitize_filename(label) is the label with each of < > : " / \ | ? *
\* replaced by "_", then every maximal run of whitespace replaced by one "_",
\* then the leading and trailing "_" removed; so the result holds none of those
\* characters, no whitespace, and neither starts nor ends with "_".
C12_Sanitized ==
    SanitizeCalled =>
        /\ ret.ok = Trimmed(RunsCollapsed(ReservedReplaced(call.account_name)))
        /\ \A k \in 1..Len(ret.ok) : ret.ok[k] \notin ReservedChars \cup Whitespace
        /\ ret.ok # <<>> => (ret.ok[1] # "_" /\ ret.ok[Len(ret.ok)] # "_")

\* a label where all three steps act: a run of two whitespace characters to
\* collapse and a reserved character at the end, replaced and then trimmed
C12_Witness ==
    /\ SanitizeCalled
    /\ \E k \in 1..(Len(call.account_name) - 1) :
          /\ call.account_name[k] \in Whitespace
          /\ call.account_name[k + 1] \in Whitespace
    /\ call.account_name # <<>>
    /\ call.account_name[Len(call.account_name)] \in ReservedChars
    /\ ret.ok # <<>>
    /\ Len(ret.ok) < Len(call.account_name) - 1

(***************************************************************************)
(* Further claims about the chunker.                                       *)
(***************************************************************************)
\* the calendar months (year, month) that hold a day of [first, last]
MonthsOf(first, last) == {<<YearOf(d), MonthOf(d)>> : d \in first..last}

\* C13: for calendar dates start < end, the number of chunks is the number of
\* distinct calendar months that hold at least one day of [start, end].
C13_OneChunkPerMonth ==
    (ChunksCalled /\ CalendarDates /\ call.start_date < call.end_date) =>
        Len(ret.ok) = Cardinality(MonthsOf(DateOf(call.start_date), DateOf(call.end_date)))

\* C16: generate_monthly_chunks(start, end) returns the empty sequence when
\* start = end.
C16_SingleDayNoChunk ==
    (ChunksCalled /\ call.start_date = call.end_date) => ret.ok = <<>>

\* a call with start = end at a calendar date, answered with no chunk
C16_Witness ==
    /\ ChunksCalled
    /\ call.start_date = call.end_date
    /\ TimeOf(call.start_date) = 0
    /\ Len(ret.ok) = 0

(***************************************************************************)
(* Further claims about the gap filler.                                    *)
(***************************************************************************)
\* the series has exactly one entry for each day of [start, end], ascending
Gapless ==
    /\ call.start_date <= call.end_date
    /\ Len(call.price_data) = DateOf(call.end_date) - DateOf(call.start_date) + 1
    /\ \A k \in 1..Len(call.price_data) :
          DayOfStr(call.price_data[k][1]) = DateOf(call.start_date) + k - 1

\* C14: on a series that has exactly one entry for each calendar day of
\* [start, end], in ascending order, fill_date_gaps returns the series itself.
C14_GaplessUnchanged ==
    (FillCalled /\ Gapless) => ret = Ok(call.price_data)

\* a gapless series of two days with two different prices, returned as it is
C14_Witness ==
    /\ FillCalled /\ Gapless
    /\ Len(call.price_data) = 2
    /\ call.price_data[1][2] # call.price_data[2][2]
    /\ ret = Ok(call.price_data)

\* C15: for an empty series fill_date_gaps fails with the "no price data
\* available" error and returns no series, whatever the bounds.
C15_EmptySeriesFails ==
    (FillCalled /\ call.price_data = <<>>) =>
        /\ IsErr(ret)
        /\ ret.err.type = "ValueError"
        /\ ret.err.msg = MsgNoData

\* the failure on an empty series over a range of several days
C15_Witness ==
    /\ FillCalled
    /\ call.price_data = <<>>
    /\ DateOf(call.start_date) < DateOf(call.end_date)
    /\ IsErr(ret)

(***************************************************************************)
(* Further claims about the extractor.                                     *)
(***************************************************************************)
HasEntityList == HasEntities /\ IsListJ(EntitiesJ) /\ EntitiesJ.l # <<>>

\* the response with every entity after the first one removed
FirstEntityOnly == JDict([pricePointsEntities |-> JList(<<EntitiesJ.l[1]>>)])

\* a response whose entity collection is a list with the same first entity
SameFirstEntity(other) ==
    /\ IsRecordJ(other)
    /\ "pricePointsEntities" \in DOMAIN other.d
    /\ IsListJ(other.d["pricePointsEntities"])
    /\ other.d["pricePointsEntities"].l # <<>>
    /\ other.d["pricePointsEntities"].l[1] = EntitiesJ.l[1]

\* C17: the outcome of extract_price_points (the points returned, or the
\* failure) is the outcome for the response that holds the first entity alone,
\* and the outcome for every response with the same first entity, whatever
\* entities follow the first one and whatever points they hold.
C17_FirstEntityOnly ==
    (ExtractCalled /\ HasEntityList) =>
        /\ ret = extract_price_points(FirstEntityOnly)
        /\ \A other \in Responses :
              SameFirstEntity(other) => extract_price_points(other) = ret

\* a first entity with an empty list of points followed by an entity that has
\* points: the call fails with "no data"
C17_Witness ==
    /\ ExtractCalled /\ HasEntityList
    /\ Len(EntitiesJ.l) = 2
    /\ HasPoints /\ PointsJ = JList(<<>>)
    /\ IsRecordJ(EntitiesJ.l[2])
    /\ "pricePoints" \in DOMAIN EntitiesJ.l[2].d
    /\ EntitiesJ.l[2].d["pricePoints"] # JList(<<>>)
    /\ RaisedNoData

(***************************************************************************)
(* Further claims about the normalizer.                                    *)
(***************************************************************************)
\* the pairs are in non-decreasing order of their date strings
OrderedByDate(pairs) ==
    \A k \in 1..(Len(pairs) - 1) : ~StrLess(pairs[k + 1][1], pairs[k][1])

NoWellFormedPoint ==
    \A k \in 1..Len(call.price_points) : ~WellFormed(call.price_points[k])

\* C18: the sequence process_price_points returns is ordered by non-decreasing
\* date whatever the order of the raw points, and a batch that is empty or has
\* no well-formed point yields the empty sequence without an error.
C18_SortedAndEmptyOk ==
    ProcessCalled =>
        /\ IsOk(ret) => OrderedByDate(ret.ok)
        /\ NoWellFormedPoint => ret = Ok(<<>>)

(***************************************************************************)
(* Further claims about the validator.                                     *)
(***************************************************************************)
EarliestAllowed == call.today - RetentionDays
Yesterday == call.today - 1

StartTooOld == DateOf(call.start_date) < EarliestAllowed
EndInFuture == DateOf(call.end_date) > Yesterday

SaidYes(answer) == answer \in {"y", "yes", "Y", "YES"}

\* C19: the clamp-or-reject policy of validate_date_range.  A start more than
\* 365 days before today is replaced by today - 365 days when the answer is
\* y/yes and rejected otherwise; an end later than yesterday is replaced by
\* yesterday when the answer is y/yes and rejected otherwise; a start of
\* today - 365 days or later and an end of yesterday or earlier are returned
\* unchanged, whatever would be answered.  So every returned pair has
\* start >= today - 365 days and end <= yesterday.
C19_ClampOrReject ==
    ValidateCalled =>
        /\ (StartTooOld /\ ~SaidYes(call.answer1)) =>
               IsErr(ret) /\ ret.err.msg = MsgStartTooOld
        /\ (EndInFuture /\ ~SaidYes(call.answer2)) => IsErr(ret)
        /\ (EndInFuture /\ ~SaidYes(call.answer2) /\ ~StartTooOld
              /\ call.start_date < call.end_date) => ret.err.msg = MsgEndFuture
        /\ IsOk(ret) =>
              /\ ret.ok[1] = IF StartTooOld THEN Midnight(EarliestAllowed) ELSE call.start_date
              /\ ret.ok[2] = IF EndInFuture THEN Midnight(Yesterday) ELSE call.end_date
              /\ DateOf(ret.ok[1]) >= EarliestAllowed
              /\ DateOf(ret.ok[2]) <= Yesterday
        /\ (~StartTooOld /\ ~EndInFuture /\ call.start_date < call.end_date) =>
              /\ ret = Ok(<<call.start_date, call.end_date>>)
              /\ \A a1 \in Answers, a2 \in Answers :
                    validate_date_range(call.start_date, call.end_date, call.today, a1, a2) = ret

\* both clamps in one call: a start before the limit and an end after
\* yesterday, both accepted
C19_Witness ==
    /\ ValidateCalled
    /\ StartTooOld /\ EndInFuture
    /\ SaidYes(call.answer1) /\ SaidYes(call.answer2)
    /\ ret = Ok(<<Midnight(EarliestAllowed), Midnight(Yesterday)>>)

(***************************************************************************)
(* Claims about fetch_price_data.                                          *)
(***************************************************************************)
FetchCalled == call.fn = "fetch_price_data" /\ ret # NotCalled

Answered2xx ==
    /\ call.answer.kind = "response"
    /\ call.answer.status >= 200 /\ call.answer.status < 300

\* C20: fetch_price_data returns the document only when the upstream answered
\* with a 2xx status and not on a login URL, and then returns the body it
\* was sent; on a failed connection or timeout, a status outside 2xx, or a
\* login URL it raises HTTPError and returns no document.
C20_DocumentOnlyOn2xx ==
    FetchCalled =>
        /\ IsOk(ret) => Answered2xx /\ ~call.answer.login /\ ret.ok = call.answer.body
        /\ (~Answered2xx \/ call.answer.login) =>
               IsErr(ret) /\ ret.err.type = "HTTPError"

\* the part of C20 the code keeps: a failed connection, a 4xx or 5xx status
\* and a login URL raise HTTPError
C20_ErrorStatusRaises ==
    (/\ FetchCalled
     /\ \/ call.answer.kind = "no_connection"
        \/ call.answer.status >= 400
        \/ call.answer.login) => IsErr(ret) /\ ret.err.type = "HTTPError"

\* a 3xx answer that carries a document is returned as a success
C20_RedirectStatusReturned ==
    /\ FetchCalled
    /\ call.answer.status = 300 /\ ~call.answer.login
    /\ ret = Ok(call.answer.body)

(***************************************************************************)
(* Claims about main.                                                      *)
(***************************************************************************)
\* --url holds a valid price-trends URL with an entityIds parameter, and
\* neither --entity-id nor --model-path is given
UrlOnlyRun ==
    /\ call.fn = "main"
    /\ call.url # NoUrl
    /\ IsOk(parse_cargurus_url(call.url))
    /\ call.entity_id = "" /\ call.model_path = ""

ArgsSorted == pc # "main"

\* C21: a run with a valid --url and without --entity-id and --model-path
\* calls scrape with the model path and the entity id that
\* parse_cargurus_url extracts from the URL, and main does not exit with an
\* error before that call.
C21_UrlRunCallsScrape ==
    (UrlOnlyRun /\ ArgsSorted) =>
        /\ ~(RunEnded /\ IsErr(ret) /\ ret.at = "main")
        /\ scrape.model_path = parse_cargurus_url(call.url).ok[1]
        /\ scrape.entity_id = parse_cargurus_url(call.url).ok[2]

(***************************************************************************)
(* The gap filler, day by day.                                             *)
(***************************************************************************)
SetMax(S) == CHOOSE x \in S : \A y \in S : y <= x

\* the positions of the series that record a price for the day
EntriesFor(day) == {k \in 1..Len(call.price_data) : DayOfStr(call.price_data[k][1]) = day}

\* the price the series records for a day it knows: that of its last entry
RecordedPrice(day) == call.price_data[SetMax(EntriesFor(day))][2]

\* the known days from start through the day
KnownUpTo(day) == {k \in KnownDays : DateOf(call.start_date) <= k /\ k <= day}

\* the positions of the output that are dated the day
OutputFor(day) == {k \in 1..Len(ret.ok) : DayOfStr(ret.ok[k][1]) = day}

\* C22: for a non-empty series and every day d of [start, end] the output has
\* an entry for d if and only if the series knows some date k with
\* start <= k <= d, and the price of the entry is the price the series
\* records for the latest such k.
C22_EntryIffKnownSinceStart ==
    (FillCalled /\ call.price_data # <<>>) =>
        /\ IsOk(ret)
        /\ \A d \in DateOf(call.start_date)..DateOf(call.end_date) :
              /\ (OutputFor(d) # {}) <=> (KnownUpTo(d) # {})
              /\ \A k \in OutputFor(d) :
                    ret.ok[k][2] = RecordedPrice(SetMax(KnownUpTo(d)))

\* the example of the walk: known prices on the first and the third day of a
\* range of four days, each carried over the day that follows it
C22_Witness ==
    /\ FillCalled /\ IsOk(ret)
    /\ Len(call.price_data) = 2
    /\ DateOf(call.end_date) = DateOf(call.start_date) + 3
    /\ DayOfStr(call.price_data[1][1]) = DateOf(call.start_date)
    /\ DayOfStr(call.price_data[2][1]) = DateOf(call.start_date) + 2
    /\ call.price_data[1][2] # call.price_data[2][2]
    /\ Len(ret.ok) = 4
    /\ ret.ok[2][2] = call.price_data[1][2]
    /\ ret.ok[4][2] = call.price_data[2][2]

(***************************************************************************)
(* The shape of the chunks.                                                *)
(***************************************************************************)
\* the last day of the month of a datetime, at its time of day
LastOfMonth(dt) ==
    LET y == YearOf(DateOf(dt))
        m == MonthOf(DateOf(dt))
    IN  Midnight(Ordinal(y, m, DaysInMonth(y, m))) + TimeOf(dt)

\* the first day of the month that follows the month of a day
FirstOfFollowingMonth(day) ==
    LET y == YearOf(day)
        m == MonthOf(day)
    IN  IF m = 12 THEN Ordinal(y + 1, 1, 1) ELSE Ordinal(y, m + 1, 1)

\* C23: for start < end the first chunk begins at start, every chunk ends at
\* min(last day of the month of its own start, end), and every chunk after
\* the first begins on the first day of the month that follows the chunk
\* before it, which is the day after that chunk's end.
C23_ChunkShape ==
    (ChunksCalled /\ call.start_date < call.end_date) =>
        /\ Len(ret.ok) >= 1
        /\ ret.ok[1][1] = call.start_date
        /\ \A k \in 1..Len(ret.ok) :
              ret.ok[k][2] = Min(LastOfMonth(ret.ok[k][1]), call.end_date)
        /\ \A k \in 2..Len(ret.ok) :
              /\ DateOf(ret.ok[k][1]) = FirstOfFollowingMonth(DateOf(ret.ok[k - 1][1]))
              /\ DateOf(ret.ok[k][1]) = DateOf(ret.ok[k - 1][2]) + 1

\* three chunks across a year boundary: from the middle of December to the
\* middle of February
C23_Witness ==
    /\ ChunksCalled /\ CalendarDates
    /\ DateOf(call.start_date) = Ordinal(2023, 12, 14)
    /\ DateOf(call.end_date) = Ordinal(2024, 2, 10)
    /\ Len(ret.ok) = 3
    /\ DateOf(ret.ok[1][2]) = Ordinal(2023, 12, 31)
    /\ DateOf(ret.ok[2][1]) = Ordinal(2024, 1, 1)
    /\ DateOf(ret.ok[3][2]) = Ordinal(2024, 2, 10)

(***************************************************************************)
(* The order of the requests and the pauses of a run.                      *)
(***************************************************************************)
\* the chunks whose fetch has been attempted
Attempted == (Len(log) + 1) \div 2

\* C24: in every run the chunks are fetched one at a time in chunk order,
\* each at most once; nothing precedes the first fetch, and exactly one pause
\* lies between every two consecutive fetches, also after a chunk that was
\* skipped for having no data.  The log of fetches and pauses is
\* fetch 1, pause, fetch 2, pause, ..., fetch n with n <= number of chunks.
C24_SequentialWithPauses ==
    /\ \A j \in 1..Len(log) :
          IF j % 2 = 1
          THEN log[j].op = "fetch" /\ log[j].chunk = (j + 1) \div 2
          ELSE log[j].op = "sleep"
    /\ log # <<>> => log[Len(log)].op = "fetch"
    /\ Attempted <= Len(scrape.chunks)
    /\ pc = "fetch" => Attempted = scrape.i
    /\ pc \in {"main", "validate"} => log = <<>>

\* a pause after a skipped chunk: the first chunk has no data, and the log
\* goes on with a pause and the fetch of the second chunk
C24_Witness ==
    /\ Len(log) >= 3
    /\ log[1].op = "fetch"
    /\ IsErr(ChunkTry(log[1].answer))
    /\ NoDataCaught(ChunkTry(log[1].answer).err)
    /\ log[2].op = "sleep"
    /\ log[3].op = "fetch" /\ log[3].chunk = 2

(***************************************************************************)
(* Repeated dates in the series given to the gap filler.                   *)
(***************************************************************************)
\* the days of [start, end] the series has several entries for
RepeatedDaysInBounds == {d \in KnownDaysInBounds : Cardinality(EntriesFor(d)) >= 2}

\* the days after a day, through end, up to the next known date
FilledFrom(day) ==
    {d \in (day + 1)..DateOf(call.end_date) : KnownDays \cap ((day + 1)..d) = {}}

\* C25: when the series holds several entries for one date inside
\* [start, end], the output has exactly one entry for that date, priced as the
\* last of those entries in series order, and the days forward-filled from
\* that date carry the same price.
C25_LastDuplicateWins ==
    FillCalled =>
        \A day \in RepeatedDaysInBounds :
            /\ IsOk(ret)
            /\ Cardinality(OutputFor(day)) = 1
            /\ \A k \in OutputFor(day) : ret.ok[k][2] = RecordedPrice(day)
            /\ \A d \in FilledFrom(day) :
                  /\ OutputFor(d) # {}
                  /\ \A k \in OutputFor(d) : ret.ok[k][2] = RecordedPrice(day)

\* two entries for the start date with different prices, the second one
\* written for that day and carried over the day after it
C25_Witness ==
    /\ FillCalled /\ IsOk(ret)
    /\ Len(call.price_data) = 2
    /\ call.price_data[1][1] = call.price_data[2][1]
    /\ call.price_data[1][2] # call.price_data[2][2]
    /\ DayOfStr(call.price_data[1][1]) = DateOf(call.start_date)
    /\ DateOf(call.end_date) = DateOf(call.start_date) + 1
    /\ ret.ok = <<call.price_data[2], <<Strftime(call.end_date), call.price_data[2][2]>>>>

(***************************************************************************)
(* Repeated dates across normalization and gap filling in a run.           *)
(***************************************************************************)
Filled == pc = "export" \/ RunSucceeded

\* the positions of the accumulated raw points that normalize to the day
RawFor(day) ==
    {k \in 1..Len(scrape.all_price_points) :
        LET r == ProcessPoint(scrape.all_price_points[k])
        IN  IsOk(r) /\ DayOfStr(r.ok[1]) = day}

RawPriceAt(k) == ProcessPoint(scrape.all_price_points[k]).ok[2]

FilledFor(day) ==
    {k \in 1..Len(scrape.filled_data) : DayOfStr(scrape.filled_data[k][1]) = day}

\* the points the responses of the log yield, in the order of the requests
RECURSIVE PointsOfLog(_)
PointsOfLog(events) ==
    IF events = <<>> THEN <<>>
    ELSE LET e == events[Len(events)]
             before == PointsOfLog(SubSeq(events, 1, Len(events) - 1))
         IN  IF e.op = "fetch" /\ IsOk(ChunkTry(e.answer))
             THEN before \o ChunkTry(e.answer).ok
             ELSE before

\* C26: once a run has filled its series, the price of a day of [start, end]
\* that several raw points are dated is the price of the last of them in the
\* accumulated list (later chunk, later position); the accumulated list is
\* the points of the responses in request order, and the filled series is
\* the gap-filled normalization of that list, so equal responses in equal
\* order give equal series.
C26_FetchOrderDecides ==
    Filled =>
        /\ \A day \in DateOf(scrape.start_date)..DateOf(scrape.end_date) :
              RawFor(day) # {} =>
                  /\ Cardinality(FilledFor(day)) = 1
                  /\ \A k \in FilledFor(day) :
                        scrape.filled_data[k][2] = RawPriceAt(SetMax(RawFor(day)))
        /\ scrape.all_price_points = PointsOfLog(log)
        /\ scrape.filled_data =
               fill_date_gaps(process_price_points(PointsOfLog(log)).ok,
                              scrape.start_date, scrape.end_date).ok

\* a date that two chunks report with different prices: the point the second
\* chunk dates the day before its start wins over the first chunk's own
C26_Witness ==
    /\ RunSucceeded
    /\ \E day \in DateOf(scrape.start_date)..DateOf(scrape.end_date) :
          /\ Cardinality(RawFor(day)) >= 2
          /\ RawPriceAt(SetMin(RawFor(day))) # RawPriceAt(SetMax(RawFor(day)))
          /\ \E k \in FilledFor(day) : scrape.filled_data[k][2] = Round2(25010250)

(***************************************************************************)
(* The time windows of the requests of a run.                              *)
(***************************************************************************)
\* the run has a validated range and chunks
RangeChunked ==
    \/ pc \in {"fetch", "export"}
    \/ RunEnded /\ (IsOk(ret) \/ ret.at \in {"fetch", "process", "fill"})

\* the run has chunks and every one of them has been requested
AllRequested ==
    /\ RangeChunked
    /\ Len(scrape.chunks) >= 1
    /\ Attempted = Len(scrape.chunks)

\* the instants of a calendar day, as timestamps
InstantsOf(day) == {to_unix_milliseconds(Midnight(day) + t) : t \in 0..(TicksPerDay - 1)}

\* the requests of the log whose [startDate, endDate] window holds the instant
RequestsHolding(instant) ==
    {j \in 1..Len(log) :
        /\ log[j].op = "fetch"
        /\ log[j].startDate <= instant /\ instant <= log[j].endDate}

\* C27: once every chunk has been requested, every instant of every calendar
\* day of [start, end] lies inside the [startDate, endDate] window of at
\* least one request.
C27_WindowsCoverRange ==
    AllRequested =>
        \A day \in DateOf(scrape.start_date)..DateOf(scrape.end_date) :
            \A instant \in InstantsOf(day) : RequestsHolding(instant) # {}

\* what the windows do hold: the first instant of every day of every chunk
C27_WindowsHoldChunkMidnights ==
    AllRequested =>
        \A k \in 1..Len(scrape.chunks) :
            \A day \in DateOf(scrape.chunks[k][1])..DateOf(scrape.chunks[k][2]) :
                RequestsHolding(to_unix_milliseconds(Midnight(day))) # {}

(***************************************************************************)
(* The file of a run that succeeds.                                        *)
(***************************************************************************)
\* C28: whenever the run returns a file name, the file it wrote has at least
\* one data row after the header; a run in which no day of [start, end]
\* receives a price ends with the "no price data" error at the gap filler
\* and writes no file.
C28_NoHeaderOnlyFile ==
    /\ RunSucceeded => ret.ok \in DOMAIN fs /\ Len(fs[ret.ok]) >= 2
    /\ (RunEnded /\ scrape.normalized /\ scrape.filled_data = <<>>) =>
           /\ IsErr(ret) /\ ret.err.msg = MsgNoData
           /\ fs = NoFiles

\* what holds of the file: the header and one row per filled day
C28_FileHoldsFilledSeries ==
    RunSucceeded =>
        /\ ret.ok \in DOMAIN fs
        /\ fs[ret.ok] = CsvRows(scrape.filled_data, call.account_name)

(***************************************************************************)
(* The shape of the filled series.                                         *)
(***************************************************************************)
InputPrices == {call.price_data[k][2] : k \in 1..Len(call.price_data)}

\* C29: for every non-empty series and start <= end the output dates all lie
\* in [start, end] and ascend in steps of exactly one calendar day; when the
\* output is non-empty its last date is end; every output price is a price
\* of the input series.
C29_FilledSeriesShape ==
    (FillCalled /\ call.price_data # <<>> /\ call.start_date <= call.end_date) =>
        /\ IsOk(ret)
        /\ \A k \in 1..Len(ret.ok) :
              /\ DateOf(call.start_date) <= DayOfStr(ret.ok[k][1])
              /\ DayOfStr(ret.ok[k][1]) <= DateOf(call.end_date)
              /\ ret.ok[k][2] \in InputPrices
        /\ \A k \in 2..Len(ret.ok) :
              DayOfStr(ret.ok[k][1]) = DayOfStr(ret.ok[k - 1][1]) + 1
        /\ ret.ok # <<>> => ret.ok[Len(ret.ok)][1] = Strftime(call.end_date)

\* an unsorted series with a date before start: the output begins after
\* start, at the only known date inside the bounds, and runs to end
C29_Witness ==
    /\ FillCalled /\ IsOk(ret)
    /\ Len(call.price_data) = 2
    /\ DayOfStr(call.price_data[2][1]) < DateOf(call.start_date)
    /\ DayOfStr(call.price_data[1][1]) = DateOf(call.start_date) + 1
    /\ DateOf(call.end_date) = DateOf(call.start_date) + 2
    /\ TimeOf(call.end_date) > 0
    /\ Len(ret.ok) = 2
    /\ ret.ok[1] = call.price_data[1]
    /\ DayOfStr(ret.ok[2][1]) = DateOf(call.end_date)

(***************************************************************************)
(* Termination of the chunker.                                             *)
(***************************************************************************)
LoopReturned == call.fn = "generate_monthly_chunks" /\ loop # NotCalled /\ ret # NotCalled

\* an iteration: the current start has changed
Iterated == loop'.current # loop.current

\* C30: generate_monthly_chunks returns for every pair (start, end), also for
\* start >= end, and each iteration of its loop moves the current start to
\* the first day of the strictly following month (January of the next year
\* after December), at the same time of day.
C30_ChunkLoopTerminates ==
    /\ <>LoopReturned
    /\ [][Iterated =>
            /\ DateOf(loop'.current) = FirstOfFollowingMonth(DateOf(loop.current))
            /\ TimeOf(loop'.current) = TimeOf(loop.current)
            /\ loop'.current > loop.current]_vars

\* the stepwise loop returns what the function computes
C30_LoopComputesChunks ==
    LoopReturned => ret = Ok(generate_monthly_chunks(call.start_date, call.end_date))

\* a loop that has returned after an iteration from December into January of
\* the next year
C30_Witness ==
    /\ LoopReturned
    /\ Len(ret.ok) >= 2
    /\ YearOf(DateOf(ret.ok[1][1])) = 2023 /\ MonthOf(DateOf(ret.ok[1][1])) = 12
    /\ DateOf(ret.ok[2][1]) = Ordinal(2024, 1, 1)
    /\ loop.current >= call.end_date

=============================================================================
